---- MODULE Spec2Model ----
(***************************************************************************)
(* Model of app.py: a spaced-repetition planner that keeps its learning    *)
(* entries in data.json and rewrites the whole array on every mutation.    *)
(*                                                                         *)
(* Python strings are sequences of one-character strings, so formatting    *)
(* (format_date, strftime) and parsing (int, strptime) are computed and    *)
(* not assumed.  A call that may raise returns a record [exc, val] whose   *)
(* exc field is "none" or the name of the exception raised.                *)
(***************************************************************************)
EXTENDS Integers, Sequences, FiniteSets, TLC

(***************************************************************************)
(* Strings                                                                 *)
(***************************************************************************)
DigitChars == <<"0", "1", "2", "3", "4", "5", "6", "7", "8", "9">>

IsDigit(c) == \E i \in 1..10 : DigitChars[i] = c

DigitVal(c) == (CHOOSE i \in 1..10 : DigitChars[i] = c) - 1

Digit(n) == DigitChars[n + 1]

\* str.isspace() on one character of the model's alphabet
IsSpace(c) == c = " "

\* code points of the model's alphabet, for Python's string ordering
Ord(c) ==
  IF c = " " THEN 32
  ELSE IF c = "+" THEN 43
  ELSE IF c = "-" THEN 45
  ELSE IF IsDigit(c) THEN 48 + DigitVal(c)
  ELSE IF c = "a" THEN 97
  ELSE IF c = "b" THEN 98
  ELSE IF c = "c" THEN 99
  ELSE 120

RECURSIVE StrLess(_, _)
\* s < t for Python str: lexicographic by code point, a proper prefix is less
StrLess(s, t) ==
  IF t = <<>> THEN FALSE
  ELSE IF s = <<>> THEN TRUE
  ELSE IF Head(s) = Head(t) THEN StrLess(Tail(s), Tail(t))
  ELSE Ord(Head(s)) < Ord(Head(t))

StrLeq(s, t) == s = t \/ StrLess(s, t)

RECURSIVE LStrip(_)
LStrip(s) == IF s # <<>> /\ IsSpace(Head(s)) THEN LStrip(Tail(s)) ELSE s

RECURSIVE RStrip(_)
RStrip(s) ==
  IF s # <<>> /\ IsSpace(s[Len(s)]) THEN RStrip(SubSeq(s, 1, Len(s) - 1)) ELSE s

\* str.strip()
Strip(s) == RStrip(LStrip(s))

AllDigits(s) == \A i \in 1..Len(s) : IsDigit(s[i])

RECURSIVE DigitsVal(_)
DigitsVal(s) ==
  IF s = <<>> THEN 0
  ELSE 10 * DigitsVal(SubSeq(s, 1, Len(s) - 1)) + DigitVal(s[Len(s)])

RECURSIVE NatToStr(_)
NatToStr(n) == IF n < 10 THEN <<Digit(n)>> ELSE NatToStr(n \div 10) \o <<Digit(n % 10)>>

\* str(n), the "{n}" of an f-string
IntToStr(n) == IF n < 0 THEN <<"-">> \o NatToStr(0 - n) ELSE NatToStr(n)

\* "{n:02d}": the sign counts towards the width of two
Pad2(n) == IF 0 <= n /\ n < 10 THEN <<"0">> \o NatToStr(n) ELSE IntToStr(n)

Raise(e) == [exc |-> e, val |-> <<>>]

Return(v) == [exc |-> "none", val |-> v]

\* int(s) for a str s: surrounding whitespace and one sign are accepted
ParseInt(s) ==
  LET t == Strip(s)
      signed == t # <<>> /\ Head(t) \in {"+", "-"}
      body == IF signed THEN Tail(t) ELSE t
  IN IF body = <<>> \/ ~AllDigits(body) THEN [exc |-> "ValueError", val |-> 0]
     ELSE [exc |-> "none",
           val |-> IF signed /\ Head(t) = "-" THEN 0 - DigitsVal(body) ELSE DigitsVal(body)]

(***************************************************************************)
(* Calendar: datetime, timedelta, strptime and strftime                    *)
(***************************************************************************)
MINYEAR == 1

MAXYEAR == 9999

IsLeap(y) == y % 4 = 0 /\ (y % 100 # 0 \/ y % 400 = 0)

\* February has 28 days in every year
get_days_in_month_noleap(year, month) ==
  IF month = 2 THEN 28 ELSE IF month \in {4, 6, 9, 11} THEN 30 ELSE 31

\* calendar.monthrange(year, month)[1]
get_days_in_month(year, month) ==
  IF month = 2 THEN (IF IsLeap(year) THEN 29 ELSE 28)
  ELSE IF month \in {4, 6, 9, 11} THEN 30
  ELSE 31

\* datetime(y, m, d) does not raise ValueError
ValidYMD(y, m, d) ==
  /\ MINYEAR <= y /\ y <= MAXYEAR
  /\ 1 <= m /\ m <= 12
  /\ 1 <= d /\ d <= get_days_in_month(y, m)

RECURSIVE AddDays(_, _)
\* date + timedelta(days = k), k >= 0; OverflowError past the last day of MAXYEAR
AddDays(date, k) ==
  LET y == date[1]
      m == date[2]
      d == date[3]
      dim == get_days_in_month(y, m)
  IN IF d + k <= dim THEN Return(<<y, m, d + k>>)
     ELSE IF m < 12 THEN AddDays(<<y, m + 1, 1>>, k - (dim - d) - 1)
     ELSE IF y < MAXYEAR THEN AddDays(<<y + 1, 1, 1>>, k - (dim - d) - 1)
     ELSE Raise("OverflowError")

\* position of the n-th "-" separator of s, 0 when there is none
DashPos(s, n) ==
  LET ps == {i \in 1..Len(s) : s[i] = "-"}
  IN IF Cardinality(ps) < n THEN 0
     ELSE CHOOSE i \in ps : Cardinality({j \in ps : j < i}) = n - 1

\* datetime.strptime(s, "%Y-%m-%d"): four year digits, one or two month
\* digits, one or two day digits or a space and a day digit from 1 to 9, and
\* nothing else
strptime(s) ==
  LET p1 == DashPos(s, 1)
      p2 == DashPos(s, 2)
      ys == SubSeq(s, 1, p1 - 1)
      ms == SubSeq(s, p1 + 1, p2 - 1)
      field == SubSeq(s, p2 + 1, Len(s))
      spaced == Len(field) = 2 /\ field[1] = " " /\ IsDigit(field[2]) /\ field[2] # "0"
      ds == IF spaced THEN Tail(field) ELSE field
  IN IF p2 = 0 \/ DashPos(s, 3) # 0 THEN Raise("ValueError")
     ELSE IF ~(AllDigits(ys) /\ AllDigits(ms) /\ AllDigits(ds)) THEN Raise("ValueError")
     ELSE IF Len(ys) # 4 \/ Len(ms) \notin {1, 2} \/ Len(ds) \notin {1, 2} THEN Raise("ValueError")
     ELSE IF ~ValidYMD(DigitsVal(ys), DigitsVal(ms), DigitsVal(ds)) THEN Raise("ValueError")
     ELSE Return(<<DigitsVal(ys), DigitsVal(ms), DigitsVal(ds)>>)

\* date.strftime("%Y-%m-%d"): the C library prints the year without padding
strftime(date) == NatToStr(date[1]) \o <<"-">> \o Pad2(date[2]) \o <<"-">> \o Pad2(date[3])

(***************************************************************************)
(* Interval calculation and date formatting                                *)
(***************************************************************************)
\* the last interval left out
intervals_six == <<1, 2, 4, 7, 14, 21>>

\* the third interval one day short
intervals_off == <<1, 2, 3, 7, 14, 21, 30>>

intervals == <<1, 2, 4, 7, 14, 21, 30>>

Review(due) == [dueDate |-> due, completed |-> FALSE]

calculate_review_dates(date_str) ==
  LET date == strptime(date_str)
      due(i) == AddDays(date.val, intervals[i])
  IN IF date.exc # "none" THEN Raise(date.exc)
     ELSE IF \E i \in 1..Len(intervals) : due(i).exc # "none" THEN Raise("OverflowError")
     ELSE Return([i \in 1..Len(intervals) |-> Review(strftime(due(i).val))])

format_date(year, month, day) ==
  LET y == ParseInt(year)
      m == ParseInt(month)
      d == ParseInt(day)
  IN IF y.exc # "none" \/ m.exc # "none" \/ d.exc # "none" THEN Raise("Error")
     ELSE IF ~ValidYMD(y.val, m.val, d.val) THEN Raise("Error")
     ELSE Return(IntToStr(y.val) \o <<"-">> \o Pad2(m.val) \o <<"-">> \o Pad2(d.val))

(***************************************************************************)
(* data.json.  kind is "missing" (no file), "invalid" (a file that is not  *)
(* JSON, such as an empty file) or "json" (a file holding the array data). *)
(***************************************************************************)
NoFile == [kind |-> "missing", data |-> <<>>]

BadFile == [kind |-> "invalid", data |-> <<>>]

JsonFile(data) == [kind |-> "json", data |-> data]

\* the pair (value returned, data.json afterwards) of a call that reads the file
Result(v, f) == [ret |-> v, file |-> f]

\* a file that is not JSON is replaced by an empty array
load_data_reset(f) ==
  IF f.kind = "json" THEN Result(f.data, f) ELSE Result(<<>>, JsonFile(<<>>))

load_data(f) ==
  IF f.kind = "missing" THEN Result(<<>>, JsonFile(<<>>))
  ELSE IF f.kind = "invalid" THEN Result(<<>>, f)
  ELSE Result(f.data, f)

\* the empty array of load_data is written
save_data_empty(data) == JsonFile(<<>>)

save_data(data) == JsonFile(data)

\* the filter with its test inverted
FilterOut_keep(data, date_str) == SelectSeq(data, LAMBDA entry : entry.date = date_str)

\* list(filter(lambda entry: entry["date"] != date_str, data))
FilterOut(data, date_str) == SelectSeq(data, LAMBDA entry : entry.date # date_str)

delete_entry(f, date_str) ==
  LET data == load_data(f).ret
  IN Result("deleted", save_data(FilterOut(data, date_str)))

RECURSIVE InsertDesc_asc(_, _)
\* the comparison of an ascending sort
InsertDesc_asc(x, sorted) ==
  IF sorted = <<>> THEN <<x>>
  ELSE IF StrLess(x.key, Head(sorted).key) THEN <<x>> \o sorted
  ELSE <<Head(sorted)>> \o InsertDesc_asc(x, Tail(sorted))

RECURSIVE InsertDesc(_, _)
\* x placed after every element whose key is not smaller: equal keys keep
\* their original order, as a sort with reverse=True does
InsertDesc(x, sorted) ==
  IF sorted = <<>> THEN <<x>>
  ELSE IF StrLess(Head(sorted).key, x.key) THEN <<x>> \o sorted
  ELSE <<Head(sorted)>> \o InsertDesc(x, Tail(sorted))

\* the list left in its order
SortKeyed_unsorted(xs) == xs

RECURSIVE SortKeyed(_)
\* the stable descending sort of a list of [key, val] records
SortKeyed(xs) ==
  IF xs = <<>> THEN <<>>
  ELSE InsertDesc(xs[Len(xs)], SortKeyed(SubSeq(xs, 1, Len(xs) - 1)))

\* sorted(xs, key=..., reverse=True), keys being the key of each element of xs
SortDesc(xs, keys) ==
  LET sorted == SortKeyed([i \in 1..Len(xs) |-> [key |-> keys[i], val |-> xs[i]]])
  IN [i \in 1..Len(xs) |-> sorted[i].val]

get_existing_dates(f) ==
  LET data == load_data(f)
      dates == [k \in 1..Len(data.ret) |-> data.ret[k].date]
  IN Result(SortDesc(dates, dates), data.file)

\* the lookup never finds the entry
FindEntry_miss(data, date_str) == 0

\* index of the first entry of data dated date_str, 0 when there is none
FindEntry(data, date_str) ==
  IF \E k \in 1..Len(data) : data[k].date = date_str
  THEN CHOOSE k \in 1..Len(data) :
         /\ data[k].date = date_str
         /\ \A j \in 1..(k - 1) : data[j].date # date_str
  ELSE 0

get_items_for_date(f, date_str) ==
  LET data == load_data(f)
      k == FindEntry(data.ret, date_str)
  IN Result(IF k = 0 THEN <<>> ELSE data.ret[k].items, data.file)

RECURSIVE DueOfEntry(_, _, _)
\* the comprehension's inner loop: the reviews of one entry from index i on
DueOfEntry(entry, i, today) ==
  IF i > Len(entry.reviews) THEN <<>>
  ELSE (IF entry.reviews[i].dueDate = today /\ ~entry.reviews[i].completed
        THEN <<[entry_date |-> entry.date, items |-> entry.items,
                review_index |-> i - 1, due_date |-> entry.reviews[i].dueDate]>>
        ELSE <<>>) \o DueOfEntry(entry, i + 1, today)

RECURSIVE DueOfData(_, _)
\* the comprehension's outer loop, in store order
DueOfData(data, today) ==
  IF data = <<>> THEN <<>>
  ELSE DueOfEntry(Head(data), 1, today) \o DueOfData(Tail(data), today)

\* today is datetime.now().strftime("%Y-%m-%d")
get_reviews_due_today(f, today) ==
  LET data == load_data(f)
      reviews_due == DueOfData(data.ret, today)
  IN Result(SortDesc(reviews_due, [i \in 1..Len(reviews_due) |-> reviews_due[i].entry_date]),
            data.file)

\* the rendered page is a function of the list of due reviews; its only
\* effect is the load_data call of get_reviews_due_today
render_today_reviews(f, today) == get_reviews_due_today(f, today)

\* the sorted list written back to data.json
render_progress_saved(f) ==
  LET data == load_data(f)
      sorted == SortDesc(data.ret, [k \in 1..Len(data.ret) |-> data.ret[k].date])
  IN Result(sorted, save_data(sorted))

\* the page shows a newest-first sorted copy of the loaded list
render_progress(f) ==
  LET data == load_data(f)
  IN Result(SortDesc(data.ret, [k \in 1..Len(data.ret) |-> data.ret[k].date]), data.file)

\* data.json after the two renderings that end every return of add_learning_entry
Rendered(f, today) == render_progress(render_today_reviews(f, today).file).file

\* data with entry["reviews"][review_index]["completed"] = True at entry k
Complete(data, k, review_index) ==
  [data EXCEPT ![k].reviews[review_index + 1].completed = TRUE]

\* entry_index taken as a position in the stored array
MarkAt_byindex(f, data, reviews, entry_index) ==
  IF 0 <= entry_index /\ entry_index < Len(reviews)
  THEN save_data(Complete(data, entry_index + 1, reviews[entry_index + 1].review_index))
  ELSE f

\* the lower bound of the range test left out: a negative index counts from
\* the end of the list, as reviews[entry_index] does
MarkAt_wrap(f, data, reviews, entry_index) ==
  IF 0 - Len(reviews) <= entry_index /\ entry_index < Len(reviews)
  THEN LET review == reviews[((entry_index + Len(reviews)) % Len(reviews)) + 1]
           k == FindEntry(data, review.entry_date)
       IN IF k # 0 THEN save_data(Complete(data, k, review.review_index)) ELSE f
  ELSE f

\* the body shared by mark_review_completed and its enhanced variant, from the
\* loaded data and the due list to the file after save_data (f when nothing is saved)
MarkAt(f, data, reviews, entry_index) ==
  IF 0 <= entry_index /\ entry_index < Len(reviews)
  THEN LET review == reviews[entry_index + 1]
           k == FindEntry(data, review.entry_date)
       IN IF k # 0 THEN save_data(Complete(data, k, review.review_index)) ELSE f
  ELSE f

\* the clock is read twice: today is what line 133 gives the call of line
\* 150, later what it gives the call of line 162, after the save
mark_review_completed(f, today, later, entry_index) ==
  LET data == load_data(f)
      reviews == get_reviews_due_today(data.file, today)
      saved == MarkAt(reviews.file, data.ret, reviews.ret, entry_index)
  IN render_today_reviews(saved, later)

\* Messages: "nothing_to_review" is the reply of line 774, "completed" of
\* line 783 and "retry" of line 787.  today is the clock of the call of line
\* 771, later the clock of the rendering of line 783 or line 787; line 774
\* returns without a second reading
mark_review_completed_enhanced(f, today, later) ==
  LET data == load_data(f)
      reviews == get_reviews_due_today(data.file, today)
      saved == MarkAt(reviews.file, data.ret, reviews.ret, 0)
  IN IF reviews.ret = <<>> THEN Result("nothing_to_review", reviews.file)
     ELSE IF FindEntry(data.ret, reviews.ret[1].entry_date) # 0
       THEN Result("completed", render_today_reviews(saved, later).file)
     ELSE Result("retry", render_today_reviews(reviews.file, later).file)

\* every text counts as an item
NonBlank_all(item) == TRUE

\* the test without the strip()
NonBlank_nostrip(item) == item # <<>>

\* "item and item.strip()"
NonBlank(item) == item # <<>> /\ Strip(item) # <<>>

\* "not year": the empty sequence stands for None and for ""
Falsy(s) == s = <<>>

\* Messages: "invalid_date" is the reply of line 85, "date_format_error" of
\* line 91, "no_items" of line 97, "updated" of line 108, "added" of line 122
\* and "add_error" of line 125.
add_learning_entry(f, today, year, month, day, item1, item2, item3) ==
  LET date_str == format_date(year, month, day)
      items == SelectSeq(<<item1, item2, item3>>, NonBlank)
      data == load_data(f)
      k == FindEntry(data.ret, date_str.val)
      reviews == calculate_review_dates(date_str.val)
      entry == [date |-> date_str.val, items |-> items, reviews |-> reviews.val]
  IN IF Falsy(year) \/ Falsy(month) \/ Falsy(day)
       THEN Result("invalid_date", Rendered(f, today))
     ELSE IF date_str.exc # "none"
       THEN Result("date_format_error", Rendered(f, today))
     ELSE IF items = <<>>
       THEN Result("no_items", Rendered(f, today))
     ELSE IF k # 0
       THEN Result("updated",
                   Rendered(save_data([data.ret EXCEPT ![k].items = items]), today))
     ELSE IF reviews.exc # "none"
       THEN Result("add_error", Rendered(data.file, today))
     ELSE Result("added", Rendered(save_data(Append(data.ret, entry)), today))

\* Messages: "select_a_date" is the reply of line 584, "deleted" of line 594.
handle_delete(f, today, date_str) ==
  LET current == get_existing_dates(f)
      deleted == delete_entry(current.file, date_str)
      updated == get_existing_dates(deleted.file)
  IN IF Falsy(date_str)
       THEN Result("select_a_date", Rendered(current.file, today))
     ELSE Result("deleted", render_today_reviews(render_progress(updated.file).file, today).file)

\* start_date <= entry["date"] <= end_date, on str
InRange(start_date, end_date, date) ==
  StrLeq(start_date, date) /\ StrLeq(date, end_date)

\* what a send_to_ai call leaves: its message, data.json, whether
\* requests.post was called and the "data" of the payload it was called with
SendResult(msg, f, sent, posted) == [ret |-> msg, file |-> f, sent |-> sent, posted |-> posted]

\* what requests.post does: a reply with status 200 and a JSON body, a reply
\* with status 200 and another body, a reply with another status, or an exception
Responses == {"json", "not_json", "status", "exception"}

\* Messages: "error" is the reply of line 976, "start_after_end" of line 919,
\* "no_data" of line 925, "analysis" of line 970, "not_json" of line 972 and
\* "request_failed" of line 974.
send_to_ai(f, start_year, start_month, start_day, end_year, end_month, end_day, response) ==
  LET sy == ParseInt(start_year)
      sm == ParseInt(start_month)
      sd == ParseInt(start_day)
      ey == ParseInt(end_year)
      em == ParseInt(end_month)
      ed == ParseInt(end_day)
      start_date == format_date(IntToStr(sy.val), IntToStr(sm.val), IntToStr(sd.val))
      end_date == format_date(IntToStr(ey.val), IntToStr(em.val), IntToStr(ed.val))
      data == load_data(f)
      filtered_data ==
        SelectSeq(data.ret, LAMBDA entry : InRange(start_date.val, end_date.val, entry.date))
      extracted_data ==
        [k \in 1..Len(filtered_data) |->
           [date |-> filtered_data[k].date, items |-> filtered_data[k].items,
            reviews |-> filtered_data[k].reviews]]
  IN IF sy.exc # "none" \/ sm.exc # "none" \/ sd.exc # "none" \/ start_date.exc # "none"
       THEN SendResult("error", f, FALSE, <<>>)
     ELSE IF ey.exc # "none" \/ em.exc # "none" \/ ed.exc # "none" \/ end_date.exc # "none"
       THEN SendResult("error", f, FALSE, <<>>)
     ELSE IF StrLess(end_date.val, start_date.val)
       THEN SendResult("start_after_end", f, FALSE, <<>>)
     ELSE IF filtered_data = <<>>
       THEN SendResult("no_data", data.file, FALSE, <<>>)
     ELSE SendResult(IF response = "json" THEN "analysis"
                     ELSE IF response = "not_json" THEN "not_json"
                     ELSE IF response = "status" THEN "request_failed"
                     ELSE "error",
                     data.file, TRUE, extracted_data)

(***************************************************************************)
(* Inputs of the handlers                                                  *)
(***************************************************************************)
Y2024 == <<"2", "0", "2", "4">>

Y9999 == <<"9", "9", "9", "9">>

ItemsA == <<<<"a">>, <<>>, <<>>>>

ItemsB == <<<<>>, <<" ", "b">>, <<"c">>>>

ItemsC == <<<<"c">>, <<" ">>, <<"a">>>>

ItemsBlank == <<<<" ">>, <<>>, <<" ", " ">>>>

\* (year, month, day, item1, item2, item3) as the three dropdowns and the three
\* text boxes deliver them
AddInputs ==
  { <<Y2024, <<"2">>, <<"2", "7">>>> \o ItemsA,
    <<Y2024, <<"2">>, <<"2", "7">>>> \o ItemsB,
    <<<<" ">> \o Y2024, <<"0", "2">>, <<"2", "8">>>> \o ItemsC,
    <<Y9999, <<"1", "2">>, <<"1">>>> \o ItemsA,
    <<Y2024, <<"2">>, <<"2", "8">>>> \o ItemsBlank,
    <<Y2024, <<"2">>, <<"3", "0">>>> \o ItemsA,
    <<Y2024, <<"a">>, <<"1">>>> \o ItemsA,
    <<<<>>, <<"2">>, <<"2", "7">>>> \o ItemsA,
    <<<<"9", "9", "9">>, <<"2">>, <<"2", "7">>>> \o ItemsA,
    <<Y9999, <<"1", "2">>, <<"1", "5">>>> \o ItemsA }

D0227 == Y2024 \o <<"-", "0", "2", "-", "2", "7">>

D0228 == Y2024 \o <<"-", "0", "2", "-", "2", "8">>

D1201 == <<"9", "9", "9", "9", "-", "1", "2", "-", "0", "1">>

\* the value of the delete dropdown: nothing selected, or a date
DeleteInputs == {<<>>, D0227, D0228, D1201}

\* the date get_items_for_date is asked for
ItemsDateInputs == {D0227, D0228, D1201}

\* (start year, month, day, end year, month, day): what the six dropdowns of
\* the analysis tab deliver, a choice each or nothing selected, and the years
\* below 1000 that int() and format_date accept as well
SendInputs ==
  { <<Y2024, <<"2">>, <<"2", "7">>, Y2024, <<"2">>, <<"2", "8">>>>,
    <<Y2024, <<"2">>, <<"2", "8">>, Y2024, <<"2">>, <<"2", "7">>>>,
    <<Y2024, <<"2">>, <<"2", "8">>, Y2024, <<"2">>, <<"2", "8">>>>,
    <<<<"2", "0", "2", "3">>, <<"1">>, <<"1">>, <<"2", "0", "2", "6">>, <<"1", "2">>, <<"3", "1">>>>,
    <<<<"2", "0", "2", "5">>, <<"1">>, <<"1">>, <<"2", "0", "2", "6">>, <<"1">>, <<"1">>>>,
    <<Y2024, <<"2">>, <<"3", "0">>, Y2024, <<"3">>, <<"1">>>>,
    <<Y2024, <<"2">>, <<"2", "7">>, <<>>, <<>>, <<>>>>,
    <<Y2024, <<"2">>, <<"2", "7">>, <<"9", "9", "9">>, <<"1", "2">>, <<"3", "1">>>>,
    <<<<"9", "9", "9">>, <<"1">>, <<"1">>, Y2024, <<"2">>, <<"2", "8">>>> }

\* the clock at the first step
StartDate == <<2024, 2, 29>>

\* the number of days the clock may advance
MaxTicks == 1

\* the largest entry_index passed to mark_review_completed
MaxIndex == 1

(***************************************************************************)
(* State                                                                   *)
(***************************************************************************)
VARIABLES
  file,   \* data.json
  now,    \* the date datetime.now() returns
  call,   \* the last call: its name, its text arguments, its index argument,
          \* the message and the list it returned or raised, and how many
          \* entries and how many due reviews it found in data.json
  hs,     \* the handlers that run at the same time: where each one stands
          \* and the local variables of its operation
  last,   \* the last save_data a handler of hs has finished
  begun   \* the number of operations the handlers of hs have begun

vars == <<file, now, call, hs, last, begun>>

today == strftime(now)

\* len(load_data()) and len(get_reviews_due_today()) as a call starting now reads them
Seen == <<Len(load_data(file).ret), Len(get_reviews_due_today(file, today).ret)>>

Call(op, args, index, msg, list) ==
  [op |-> op, args |-> args, index |-> index, msg |-> msg, list |-> list, seen |-> Seen]

\* a step that is not a call of the program
NoCall(op, args) ==
  [op |-> op, args |-> args, index |-> 0, msg |-> "", list |-> <<>>, seen |-> <<0, 0>>]

Handlers == {1, 2}

\* a handler between two operations
Idle ==
  [pc |-> "idle", args |-> <<>>, index |-> 0, data |-> <<>>, due_data |-> <<>>,
   reviews |-> <<>>, race |-> "none", earlier |-> {}]

NoSave ==
  [h |-> 0, op |-> "none", args |-> <<>>, index |-> 0, data |-> <<>>, reviews |-> <<>>,
   race |-> "none", earlier |-> {}, before |-> NoFile, after |-> NoFile]

Init ==
  /\ file \in {NoFile, BadFile, JsonFile(<<>>)}
  /\ now = StartDate
  /\ call = NoCall("start", <<>>)
  /\ hs = [h \in Handlers |-> Idle]
  /\ last = NoSave
  /\ begun = 0

\* line 1096, and the first statement of every operation
LoadData ==
  /\ file' = load_data(file).file
  /\ call' = Call("load_data", <<>>, 0, "", load_data(file).ret)
  /\ UNCHANGED <<now, hs, last, begun>>

AddLearningEntry ==
  \E a \in AddInputs :
    LET r == add_learning_entry(file, today, a[1], a[2], a[3], a[4], a[5], a[6])
    IN /\ file' = r.file
       /\ call' = Call("add_learning_entry", a, 0, r.ret, <<>>)
       /\ UNCHANGED <<now, hs, last, begun>>

HandleDelete ==
  \E d \in DeleteInputs :
    LET r == handle_delete(file, today, d)
    IN /\ file' = r.file
       /\ call' = Call("handle_delete", <<d>>, 0, r.ret, <<>>)
       /\ UNCHANGED <<now, hs, last, begun>>

GetReviewsDueToday ==
  LET r == get_reviews_due_today(file, today)
  IN /\ file' = r.file
     /\ call' = Call("get_reviews_due_today", <<>>, 0, "", r.ret)
     /\ UNCHANGED <<now, hs, last, begun>>

RECURSIVE Midnights(_)
\* the dates the clock may show at a later reading, when it shows d now
Midnights(d) ==
  IF d = AddDays(StartDate, MaxTicks).val THEN {d}
  ELSE {d} \cup Midnights(AddDays(d, 1).val)

\* the list is looked up at the clock of now; midnight may pass before the
\* rendering of line 162 reads the clock again
MarkReviewCompleted ==
  \E i \in -1..MaxIndex, later \in Midnights(now) :
    LET r == mark_review_completed(file, today, strftime(later), i)
    IN /\ file' = r.file
       /\ now' = later
       /\ call' = Call("mark_review_completed", <<>>, i, "", r.ret)
       /\ UNCHANGED <<hs, last, begun>>

\* the clock is read a second time only when a review was due (lines 783, 787)
MarkReviewCompletedEnhanced ==
  \E later \in Midnights(now) :
    LET r == mark_review_completed_enhanced(file, today, strftime(later))
    IN /\ r.ret = "nothing_to_review" => later = now
       /\ file' = r.file
       /\ now' = later
       /\ call' = Call("mark_review_completed_enhanced", <<>>, 0, r.ret, <<>>)
       /\ UNCHANGED <<hs, last, begun>>

\* midnight passes
Tick ==
  /\ now # AddDays(StartDate, MaxTicks).val
  /\ now' = AddDays(now, 1).val
  /\ call' = NoCall("tick", <<>>)
  /\ UNCHANGED <<file, hs, last, begun>>

Next ==
  \/ LoadData
  \/ AddLearningEntry
  \/ HandleDelete
  \/ GetReviewsDueToday
  \/ MarkReviewCompleted
  \/ MarkReviewCompletedEnhanced
  \/ Tick

Spec == Init /\ [][Next]_vars

(***************************************************************************)
(* Two handlers at the same time.  No call of the file is one step of its  *)
(* function: load_data of a missing file is the open that fails, the open  *)
(* that creates the file and the write of the empty array; save_data is    *)
(* the open that empties the file and the write of the text.  The read of  *)
(* a file that exists is one step.  A load of a file that exists whose     *)
(* result the handler does not keep (the renderings that end every         *)
(* handler) changes nothing and is no step.  get_reviews_due_today reads   *)
(* the file and then the clock, in two steps.                              *)
(***************************************************************************)
\* the inputs of add_learning_entry that pass lines 84 to 97
ConcAddInputs ==
  { <<Y2024, <<"2">>, <<"2", "7">>>> \o ItemsA,
    <<Y2024, <<"2">>, <<"2", "7">>>> \o ItemsB,
    <<<<" ">> \o Y2024, <<"0", "2">>, <<"2", "8">>>> \o ItemsC }

ConcDeleteInputs == {D0227, D0228}

\* data.json when the two handlers begin: as Init has it, or holding the one
\* entry an add_learning_entry call made of the empty array
ConcStores ==
  {NoFile, BadFile, JsonFile(<<>>),
   add_learning_entry(JsonFile(<<>>), strftime(StartDate),
                      <<" ">> \o Y2024, <<"0", "2">>, <<"2", "8">>,
                      ItemsA[1], ItemsA[2], ItemsA[3]).file}

InitConc ==
  /\ file \in ConcStores
  /\ now = StartDate
  /\ call = NoCall("start", <<>>)
  /\ hs = [h \in Handlers |-> Idle]
  /\ last = NoSave
  /\ begun = 0

\* the number of operations the handlers may begin
MaxOps == 2

RECURSIVE ItemsLen(_)
\* the lines of the items of an entry: six spaces, the text in quotes, a newline
ItemsLen(items) ==
  IF items = <<>> THEN 0 ELSE 9 + Len(Head(items)) + ItemsLen(Tail(items))

RECURSIVE ReviewsLen(_)
\* the five lines of every review of an entry
ReviewsLen(reviews) ==
  IF reviews = <<>> THEN 0
  ELSE 61 + Len(Head(reviews).dueDate) + (IF Head(reviews).completed THEN 4 ELSE 5)
       + ReviewsLen(Tail(reviews))

\* the lines of one entry, with the commas between its items and between its reviews
EntryLen(entry) ==
  68 + Len(entry.date) + ItemsLen(entry.items) + (Len(entry.items) - 1)
     + ReviewsLen(entry.reviews) + (Len(entry.reviews) - 1)

RECURSIVE EntriesLen(_)
EntriesLen(data) == IF data = <<>> THEN 0 ELSE EntryLen(Head(data)) + EntriesLen(Tail(data))

\* the number of characters json.dump(data, f, ensure_ascii=False, indent=2)
\* writes: "[]" for the empty array, as json.dump([], f) does
JsonLen(data) ==
  IF data = <<>> THEN 2 ELSE 4 + 2 * (Len(data) - 1) + EntriesLen(data)

\* open("data.json", "w"): the file exists and is empty, which is not JSON
Opened == BadFile

\* the file f after a handler that opened it for writing writes the text of
\* written and closes.  The text is shorter than the buffer of the file
\* object and goes out in one write at offset 0.  The file is empty unless
\* the other handler has written since this one opened it; a shorter text
\* then leaves the end of the other text behind it, which is not JSON
Overwrite(f, written) ==
  IF f.kind = "json" /\ JsonLen(written.data) < JsonLen(f.data) THEN BadFile ELSE written

\* where a handler stands when it has loaded all its operation reads and has
\* not begun to save
LoadedPcs == {"add_loaded", "delete_loaded", "mark_read", "mark_listed"}

\* where a handler stands between the open and the write of its save_data
OpenedPcs == {"add_opened", "delete_opened", "mark_opened"}

\* after the failed open of load_data, and after its open for writing
MissingPcs == {"add_missing", "delete_missing", "mark_missing", "read_missing"}

CreatingPcs == {"add_creating", "delete_creating", "mark_creating", "read_creating"}

\* what a save changes: an entry of this date with these items (add), no
\* entry of this date (delete), or review index of the entry of this date
\* completed (mark)
Change(kind, date, items, index) ==
  [kind |-> kind, date |-> date, items |-> items, index |-> index]

\* the handlers of next that have loaded and not begun to save when another
\* one has too: both have loaded before either saves
Met(next) ==
  LET loaded == {g \in Handlers : next[g].pc \in LoadedPcs}
  IN [g \in Handlers |->
        IF g \in loaded /\ Cardinality(loaded) >= 2
        THEN [next[g] EXCEPT !.race = "raced"] ELSE next[g]]

\* the handlers other than h see the save of h: one that had loaded before
\* h began to save, and has not finished its own save, is overtaken
Overtaken(h, change) ==
  [g \in Handlers |->
     IF g = h THEN Idle
     ELSE IF hs[g].race = "raced" /\ hs[g].pc \in LoadedPcs \cup OpenedPcs
       THEN [hs[g] EXCEPT !.earlier = @ \cup change]
     ELSE hs[g]]

SaveOf(h, op, after) ==
  [h |-> h, op |-> op, args |-> hs[h].args, index |-> hs[h].index, data |-> hs[h].data,
   reviews |-> hs[h].reviews, race |-> hs[h].race, earlier |-> hs[h].earlier,
   before |-> file, after |-> after]

\* line 100: data = load_data(), once lines 84 to 97 have accepted the inputs:
\* the read of line 15, or the open of line 13 that fails
AddLoad(h) ==
  \E a \in ConcAddInputs :
    /\ hs[h].pc = "idle" /\ begun < MaxOps
    /\ hs' = Met([hs EXCEPT ![h] =
                    IF file.kind = "missing"
                    THEN [Idle EXCEPT !.pc = "add_missing", !.args = a]
                    ELSE [Idle EXCEPT !.pc = "add_loaded", !.args = a,
                                      !.data = load_data(file).ret]])
    /\ begun' = begun + 1
    /\ UNCHANGED <<file, now, call, last>>

\* line 27 of the save_data of line 119 or line 107
AddOpen(h) ==
  /\ hs[h].pc = "add_loaded"
  /\ file' = Opened
  /\ hs' = [hs EXCEPT ![h].pc = "add_opened"]
  /\ UNCHANGED <<now, call, last, begun>>

\* line 28 of that save_data, writing what lines 103 to 118 made of data
AddSave(h) ==
  LET a == hs[h].args
      date_str == format_date(a[1], a[2], a[3]).val
      items == SelectSeq(<<a[4], a[5], a[6]>>, NonBlank)
      written == add_learning_entry(JsonFile(hs[h].data), today,
                                    a[1], a[2], a[3], a[4], a[5], a[6]).file.data
      after == Overwrite(file, save_data(written))
  IN /\ hs[h].pc = "add_opened"
     /\ file' = after
     /\ last' = SaveOf(h, "add_learning_entry", after)
     /\ hs' = Overtaken(h, IF written = hs[h].data THEN {}
                           ELSE {Change("add", date_str, items, 0)})
     /\ UNCHANGED <<now, call, begun>>

\* line 581: the get_existing_dates() that begins handle_delete, whose list
\* the deletion does not use
DeleteList(h) ==
  \E d \in ConcDeleteInputs :
    /\ hs[h].pc = "idle" /\ begun < MaxOps
    /\ hs' = [hs EXCEPT ![h] =
                [Idle EXCEPT !.pc = IF file.kind = "missing" THEN "delete_missing"
                                    ELSE "delete_listed",
                             !.args = <<d>>]]
    /\ begun' = begun + 1
    /\ UNCHANGED <<file, now, call, last>>

\* line 32: data = load_data() of delete_entry; the file exists by now
DeleteLoad(h) ==
  /\ hs[h].pc = "delete_listed"
  /\ hs' = Met([hs EXCEPT ![h].pc = "delete_loaded", ![h].data = load_data(file).ret])
  /\ UNCHANGED <<file, now, call, last, begun>>

\* line 27 of the save_data of line 35
DeleteOpen(h) ==
  /\ hs[h].pc = "delete_loaded"
  /\ file' = Opened
  /\ hs' = [hs EXCEPT ![h].pc = "delete_opened"]
  /\ UNCHANGED <<now, call, last, begun>>

\* line 28 of that save_data, writing the list of line 34
DeleteSave(h) ==
  LET written == FilterOut(hs[h].data, hs[h].args[1])
      after == Overwrite(file, save_data(written))
  IN /\ hs[h].pc = "delete_opened"
     /\ file' = after
     /\ last' = SaveOf(h, "delete_entry", after)
     /\ hs' = Overtaken(h, IF written = hs[h].data THEN {}
                           ELSE {Change("delete", hs[h].args[1], <<>>, 0)})
     /\ UNCHANGED <<now, call, begun>>

\* line 149: data = load_data() of mark_review_completed
MarkLoad(h) ==
  \E i \in 0..1 :
    /\ hs[h].pc = "idle" /\ begun < MaxOps
    /\ hs' = [hs EXCEPT ![h] =
                IF file.kind = "missing"
                THEN [Idle EXCEPT !.pc = "mark_missing", !.index = i]
                ELSE [Idle EXCEPT !.pc = "mark_loaded", !.index = i,
                                  !.data = load_data(file).ret]]
    /\ begun' = begun + 1
    /\ UNCHANGED <<file, now, call, last>>

\* line 150 calls get_reviews_due_today(), whose line 129 loads again; the
\* file exists by now.  An empty list returns at line 131 and the clock is
\* not read
MarkRead(h) ==
  LET data == load_data(file).ret
  IN /\ hs[h].pc = "mark_loaded"
     /\ hs' = Met([hs EXCEPT ![h] =
                     IF data = <<>> THEN [@ EXCEPT !.pc = "mark_listed", !.reviews = <<>>]
                     ELSE [@ EXCEPT !.pc = "mark_read", !.due_data = data]])
     /\ UNCHANGED <<file, now, call, last, begun>>

\* lines 133 to 146 of that call: the clock is read now, and the list is made
\* of the data line 129 loaded
MarkList(h) ==
  /\ hs[h].pc = "mark_read"
  /\ hs' = [hs EXCEPT ![h].pc = "mark_listed",
                      ![h].due_data = <<>>,
                      ![h].reviews =
                        get_reviews_due_today(JsonFile(hs[h].due_data), today).ret]
  /\ UNCHANGED <<file, now, call, last, begun>>

\* line 27 of the save_data of line 159, when lines 152 to 157 reach it
MarkOpen(h) ==
  /\ hs[h].pc = "mark_listed"
  /\ MarkAt(NoFile, hs[h].data, hs[h].reviews, hs[h].index) # NoFile
  /\ file' = Opened
  /\ hs' = [hs EXCEPT ![h].pc = "mark_opened"]
  /\ UNCHANGED <<now, call, last, begun>>

\* line 28 of that save_data
MarkSave(h) ==
  LET saved == MarkAt(NoFile, hs[h].data, hs[h].reviews, hs[h].index)
      review == hs[h].reviews[hs[h].index + 1]
      after == Overwrite(file, saved)
  IN /\ hs[h].pc = "mark_opened"
     /\ file' = after
     /\ last' = SaveOf(h, "mark_review_completed", after)
     /\ hs' = Overtaken(h, IF saved.data = hs[h].data THEN {}
                           ELSE {Change("mark", review.entry_date, <<>>, review.review_index)})
     /\ UNCHANGED <<now, call, begun>>

\* lines 152 to 162 when the index is out of range or the entry is not found
MarkSkip(h) ==
  /\ hs[h].pc = "mark_listed"
  /\ MarkAt(NoFile, hs[h].data, hs[h].reviews, hs[h].index) = NoFile
  /\ hs' = [hs EXCEPT ![h] = Idle]
  /\ UNCHANGED <<file, now, call, last, begun>>

\* a handler that only loads (a rendering, get_existing_dates,
\* get_items_for_date, add_learning_entry with inputs it rejects) and finds
\* no file: the open of line 13 fails.  When the file exists it reads it and
\* changes nothing
ReadMiss(h) ==
  /\ hs[h].pc = "idle" /\ begun < MaxOps
  /\ file.kind = "missing"
  /\ hs' = [hs EXCEPT ![h].pc = "read_missing"]
  /\ begun' = begun + 1
  /\ UNCHANGED <<file, now, call, last>>

\* line 21: load_data opens the file it did not find for writing, whatever
\* the file has become
CreateOpen(h) ==
  /\ hs[h].pc \in MissingPcs
  /\ file' = Opened
  /\ hs' = [hs EXCEPT ![h].pc =
              IF @ = "add_missing" THEN "add_creating"
              ELSE IF @ = "delete_missing" THEN "delete_creating"
              ELSE IF @ = "mark_missing" THEN "mark_creating"
              ELSE "read_creating"]
  /\ UNCHANGED <<now, call, last, begun>>

\* lines 22 and 23: json.dump([], f), and load_data returns []
CreateWrite(h) ==
  /\ hs[h].pc \in CreatingPcs
  /\ file' = Overwrite(file, JsonFile(<<>>))
  /\ hs' = Met([hs EXCEPT ![h] =
                  IF hs[h].pc = "add_creating" THEN [@ EXCEPT !.pc = "add_loaded", !.data = <<>>]
                  ELSE IF hs[h].pc = "delete_creating" THEN [@ EXCEPT !.pc = "delete_listed"]
                  ELSE IF hs[h].pc = "mark_creating"
                    THEN [@ EXCEPT !.pc = "mark_loaded", !.data = <<>>]
                  ELSE Idle])
  /\ UNCHANGED <<now, call, last, begun>>

NextConc ==
  \/ \E h \in Handlers :
       \/ AddLoad(h)
       \/ AddOpen(h)
       \/ AddSave(h)
       \/ DeleteList(h)
       \/ DeleteLoad(h)
       \/ DeleteOpen(h)
       \/ DeleteSave(h)
       \/ MarkLoad(h)
       \/ MarkRead(h)
       \/ MarkList(h)
       \/ MarkOpen(h)
       \/ MarkSave(h)
       \/ MarkSkip(h)
       \/ ReadMiss(h)
       \/ CreateOpen(h)
       \/ CreateWrite(h)
  \/ Tick

SpecConc == InitConc /\ [][NextConc]_vars

(***************************************************************************)
(* The operations that only read data.json, applied to the files the       *)
(* mutating operations can leave                                           *)
(***************************************************************************)
\* the number of add_learning_entry calls that made the file that is read
MaxEntries == 3

\* the inputs of the add_learning_entry calls that made the file
ReadAddInputs ==
  ConcAddInputs \cup {<<Y9999, <<"1", "2">>, <<"1">>>> \o ItemsA}

RECURSIVE StoresAfter(_)
\* the arrays that n or fewer add_learning_entry calls leave of the empty array
StoresAfter(n) ==
  IF n = 0 THEN {<<>>}
  ELSE LET before == StoresAfter(n - 1)
       IN before \cup
          {add_learning_entry(JsonFile(data), strftime(StartDate),
                              a[1], a[2], a[3], a[4], a[5], a[6]).file.data :
             data \in before, a \in ReadAddInputs}

\* data.json as the mutating operations can leave it: no file, a file that is
\* not JSON, the arrays of StoresAfter, and those arrays after the first
\* review due on the first day was marked
ReadFiles ==
  {NoFile, BadFile}
    \cup {JsonFile(data) : data \in StoresAfter(MaxEntries)}
    \cup {mark_review_completed(JsonFile(data), strftime(StartDate), strftime(StartDate), 0).file :
            data \in StoresAfter(MaxEntries)}

InitRead ==
  /\ file \in ReadFiles
  /\ now = StartDate
  /\ call = NoCall("start", <<>>)
  /\ hs = [h \in Handlers |-> Idle]
  /\ last = NoSave
  /\ begun = 0

\* line 840: the choices of the delete dropdown
GetExistingDates ==
  LET r == get_existing_dates(file)
  IN /\ file' = r.file
     /\ call' = Call("get_existing_dates", <<>>, 0, "", r.ret)
     /\ UNCHANGED <<now, hs, last, begun>>

\* line 724: the items of the date selected in the dropdown of existing dates
GetItemsForDate ==
  \E d \in ItemsDateInputs :
    LET r == get_items_for_date(file, d)
    IN /\ file' = r.file
       /\ call' = Call("get_items_for_date", <<d>>, 0, "", r.ret)
       /\ UNCHANGED <<now, hs, last, begun>>

\* line 979: the click of the analysis button, up to the return of line 919,
\* 925 or 976, or to the call of requests.post at line 947, where the handler
\* waits for the reply.  index is 1 when requests.post was called and list is
\* the "data" it was called with; handler 1 keeps the inputs and the data of
\* line 921 while it waits
SendToAi ==
  \E a \in SendInputs :
    LET r == send_to_ai(file, a[1], a[2], a[3], a[4], a[5], a[6], "json")
    IN /\ hs[1].pc = "idle"
       /\ file' = r.file
       /\ IF r.sent
          THEN /\ hs' = [hs EXCEPT ![1] = [Idle EXCEPT !.pc = "send_waiting", !.args = a,
                                                      !.data = load_data(file).ret]]
               /\ call' = Call("send_to_ai", a, 1, "waiting", r.posted)
          ELSE /\ hs' = hs
               /\ call' = Call("send_to_ai", a, 0, r.ret, <<>>)
       /\ UNCHANGED <<now, last, begun>>

\* lines 949 to 974: requests.post returns or raises, and send_to_ai returns
\* its message; neither data.json nor the clock is read again
SendReply ==
  \E response \in Responses :
    LET a == hs[1].args
        r == send_to_ai(JsonFile(hs[1].data), a[1], a[2], a[3], a[4], a[5], a[6], response)
    IN /\ hs[1].pc = "send_waiting"
       /\ hs' = [hs EXCEPT ![1] = Idle]
       /\ call' = Call("send_to_ai", a, 1, r.ret, r.posted)
       /\ UNCHANGED <<file, now, last, begun>>

\* the inputs of the add_learning_entry that runs while send_to_ai waits
SendAddInputs ==
  { <<Y2024, <<"2">>, <<"2", "7">>>> \o ItemsB,
    <<<<" ">> \o Y2024, <<"0", "2">>, <<"2", "8">>>> \o ItemsC }

\* line 986: the add_learning_entry of another handler, whole, while
\* send_to_ai waits for the reply; the adds before the call are in the files
\* of InitRead
AddWhileSending ==
  /\ hs[1].pc = "send_waiting"
  /\ \E a \in SendAddInputs :
       \E r \in {add_learning_entry(file, today, a[1], a[2], a[3], a[4], a[5], a[6])} :
         /\ Len(r.file.data) <= MaxEntries
         /\ file' = r.file
         /\ call' = Call("add_learning_entry", a, 0, r.ret, <<>>)
         /\ UNCHANGED <<now, hs, last, begun>>

\* line 1074: the refresh of today's reviews
RenderTodayReviews ==
  LET r == render_today_reviews(file, today)
  IN /\ file' = r.file
     /\ call' = Call("render_today_reviews", <<>>, 0, "", r.ret)
     /\ UNCHANGED <<now, hs, last, begun>>

\* line 1079: the refresh of the progress page
RenderProgress ==
  LET r == render_progress(file)
  IN /\ file' = r.file
     /\ call' = Call("render_progress", <<>>, 0, "", r.ret)
     /\ UNCHANGED <<now, hs, last, begun>>

NextRead ==
  \/ GetExistingDates
  \/ GetItemsForDate
  \/ GetReviewsDueToday
  \/ RenderTodayReviews
  \/ RenderProgress
  \/ SendToAi
  \/ SendReply
  \/ Tick

SpecRead == InitRead /\ [][NextRead]_vars

\* send_to_ai and what passes while it waits for the reply: another handler
\* adds, midnight
NextSend ==
  \/ SendToAi
  \/ SendReply
  \/ AddWhileSending
  \/ Tick

SpecSend == InitRead /\ [][NextSend]_vars

(***************************************************************************)
(* calculate_review_dates as a function of its argument                    *)
(***************************************************************************)
CalcYears == {999, 1000, 2023, 2024, 9999}

\* n in four digits
Pad4(n) == <<Digit(n \div 1000), Digit((n \div 100) % 10), Digit((n \div 10) % 10), Digit(n % 10)>>

\* the ten-character text of a date
Iso(date) == Pad4(date[1]) \o <<"-">> \o Pad2(date[2]) \o <<"-">> \o Pad2(date[3])

\* every day of the years of CalcYears, written YYYY-MM-DD
CalcInputs ==
  {Iso(<<y, m, d>>) : <<y, m, d>> \in
     {t \in CalcYears \X (1..12) \X (1..31) : ValidYMD(t[1], t[2], t[3])}}

InitCalc ==
  /\ file = NoFile
  /\ now = StartDate
  /\ call \in {NoCall("input", <<d>>) : d \in CalcInputs}
  /\ hs = [h \in Handlers |-> Idle]
  /\ last = NoSave
  /\ begun = 0

CalculateReviewDates ==
  /\ call.op = "input"
  /\ call' = [call EXCEPT !.op = "calculate_review_dates",
                          !.msg = calculate_review_dates(call.args[1]).exc,
                          !.list = calculate_review_dates(call.args[1]).val]
  /\ UNCHANGED <<file, now, hs, last, begun>>

NextCalc == CalculateReviewDates

SpecCalc == InitCalc /\ [][NextCalc]_vars

(***************************************************************************)
(* format_date as a function of its arguments                              *)
(***************************************************************************)
FormatYears ==
  { <<>>, <<"a">>, <<"0">>, <<"-", "1">>, <<"9", "9", "9">>, <<"1", "0", "0", "0">>,
    <<"2", "0", "2", "3">>, Y2024, <<" ">> \o Y2024, Y9999, <<"1", "0", "0", "0", "0">> }

FormatMonths ==
  { <<>>, <<"a">>, <<"0">>, <<"1">>, <<"2">>, <<"0", "2">>, <<"4">>, <<"+", "6">>,
    <<"1", "2">>, <<"1", "3">> }

FormatDays ==
  { <<>>, <<"0">>, <<"1">>, <<"0", "7">>, <<"2", "8">>, <<"2", "9">>, <<"3", "0">>,
    <<"3", "1">>, <<"3", "2">>, <<"-", "5">> }

InitFormat ==
  /\ file = NoFile
  /\ now = StartDate
  /\ call \in {NoCall("input", <<y, m, d>>) :
                 y \in FormatYears, m \in FormatMonths, d \in FormatDays}
  /\ hs = [h \in Handlers |-> Idle]
  /\ last = NoSave
  /\ begun = 0

FormatDate ==
  /\ call.op = "input"
  /\ call' = [call EXCEPT !.op = "format_date",
                          !.msg = format_date(call.args[1], call.args[2], call.args[3]).exc,
                          !.list = format_date(call.args[1], call.args[2], call.args[3]).val]
  /\ UNCHANGED <<file, now, hs, last, begun>>

NextFormat == FormatDate

SpecFormat == InitFormat /\ [][NextFormat]_vars

(***************************************************************************)
(* Properties                                                              *)
(***************************************************************************)
Entries == file.data

\* an item that is empty or made of spaces only
BlankText(item) == \A i \in 1..Len(item) : item[i] = " "

\* the Gregorian calendar: a year divisible by 4 is a leap year, a century
\* only when divisible by 400
MonthLengths(y) ==
  <<31, IF (y % 4 = 0 /\ y % 100 # 0) \/ y % 400 = 0 THEN 29 ELSE 28,
    31, 30, 31, 30, 31, 31, 30, 31, 30, 31>>

IsCalendarDate(date) ==
  /\ date[1] \in 1..9999
  /\ date[2] \in 1..12
  /\ date[3] \in 1..MonthLengths(date[1])[date[2]]

RECURSIVE DaysBeforeMonth(_, _)
DaysBeforeMonth(y, m) ==
  IF m = 1 THEN 0 ELSE DaysBeforeMonth(y, m - 1) + MonthLengths(y)[m - 1]

\* the proleptic Gregorian day number of a date
Ordinal(date) ==
  LET y == date[1] - 1
  IN 365 * y + (y \div 4) - (y \div 100) + (y \div 400)
     + DaysBeforeMonth(date[1], date[2]) + date[3]

\* the text is ten characters, YYYY-MM-DD, of a calendar date
IsIsoDate(s) ==
  /\ Len(s) = 10
  /\ s[5] = "-" /\ s[8] = "-"
  /\ \A i \in {1, 2, 3, 4, 6, 7, 9, 10} : IsDigit(s[i])
  /\ IsCalendarDate(<<DigitsVal(SubSeq(s, 1, 4)), DigitsVal(SubSeq(s, 6, 7)),
                      DigitsVal(SubSeq(s, 9, 10))>>)

IsoYMD(s) == <<DigitsVal(SubSeq(s, 1, 4)), DigitsVal(SubSeq(s, 6, 7)), DigitsVal(SubSeq(s, 9, 10))>>

\* the number of days from the date written s to the date written t
DaysFromTo(s, t) == Ordinal(IsoYMD(t)) - Ordinal(IsoYMD(s))

EbbinghausDays == <<1, 2, 4, 7, 14, 21, 30>>

\* C1: no two entries of the stored array have the same date.
C1_UniqueDates ==
  \A i, j \in 1..Len(Entries) : i # j => Entries[i].date # Entries[j].date

\* an existing date has just been written again and the array holds several entries
C1_Witness ==
  /\ call.op = "add_learning_entry" /\ call.msg = "updated"
  /\ Len(Entries) >= 2

\* C2: every stored entry has exactly seven reviews, and review i is due 1, 2,
\* 4, 7, 14, 21, 30 days after the entry's date, in every reachable state, so
\* that no operation changes a due date or the number of reviews.
C2_ReviewSchedule ==
  \A k \in 1..Len(Entries) :
    /\ Len(Entries[k].reviews) = 7
    /\ IsIsoDate(Entries[k].date)
    /\ \A i \in 1..7 :
         /\ IsIsoDate(Entries[k].reviews[i].dueDate)
         /\ DaysFromTo(Entries[k].date, Entries[k].reviews[i].dueDate) = EbbinghausDays[i]

\* an entry whose schedule crosses the end of February has had its items
\* rewritten and a review marked
C2_Witness ==
  \E k \in 1..Len(Entries) :
    /\ Entries[k].date = D0228
    /\ Entries[k].reviews[2].dueDate = Y2024 \o <<"-", "0", "3", "-", "0", "1">>
    /\ Entries[k].reviews[2].completed
    /\ call.op = "add_learning_entry" /\ call.msg = "updated"

\* items is inputs without its blank texts, in the order of inputs
KeptInOrder(items, inputs) ==
  LET kept == {i \in 1..Len(inputs) : ~BlankText(inputs[i])}
  IN /\ Len(items) = Cardinality(kept)
     /\ \E f \in [1..Len(items) -> kept] :
          /\ \A a, b \in 1..Len(items) : a < b => f[a] < f[b]
          /\ \A a \in 1..Len(items) : items[a] = inputs[f[a]]

ItemsOf(data, date_str) == {data[k].items : k \in {j \in 1..Len(data) : data[j].date = date_str}}

DatesOf(data) == {data[k].date : k \in 1..Len(data)}

C3_ItemsWellFormed ==
  \A k \in 1..Len(Entries) :
    /\ Len(Entries[k].items) \in 1..3
    /\ \A i \in 1..Len(Entries[k].items) : ~BlankText(Entries[k].items[i])

\* a step writes the items of an entry only as an add_learning_entry call
\* that keeps the non-blank inputs in their order
C3_ItemsWritten ==
  \A d \in DatesOf(file'.data) :
    \/ d \in DatesOf(file.data) /\ ItemsOf(file'.data, d) = ItemsOf(file.data, d)
    \/ /\ call'.op = "add_learning_entry"
       /\ call'.msg \in {"added", "updated"}
       /\ \A items \in ItemsOf(file'.data, d) :
            KeptInOrder(items, <<call'.args[4], call'.args[5], call'.args[6]>>)

\* C3: every stored entry holds one to three items, none empty or
\* whitespace-only, in the relative order of the item1, item2, item3 inputs
\* of the add_learning_entry call that last wrote them.
C3_Items == [](C3_ItemsWellFormed) /\ [][C3_ItemsWritten]_vars

\* an entry written from inputs whose first text is blank holds the two
\* others, in order
C3_Witness ==
  /\ call.op = "add_learning_entry" /\ call.msg = "updated"
  /\ call.args[4] = <<>>
  /\ \E k \in 1..Len(Entries) :
       Entries[k].items = <<call.args[5], call.args[6]>>

\* the list r holds seven reviews, not completed, due 1, 2, 4, 7, 14, 21, 30
\* days after the date written d, in increasing order of due date
SevenReviewsAfter(d, r) ==
  /\ Len(r) = 7
  /\ \A i \in 1..7 :
       /\ IsIsoDate(r[i].dueDate)
       /\ DaysFromTo(d, r[i].dueDate) = EbbinghausDays[i]
       /\ r[i].completed = FALSE
  /\ \A i \in 1..6 : StrLess(r[i].dueDate, r[i + 1].dueDate)

\* C4 as stated: for every valid date d, calculate_review_dates(d) returns
\* seven records in increasing due-date order, due d+1, d+2, d+4, d+7, d+14,
\* d+21 and d+30, none completed.
C4_EveryDate ==
  call.op = "calculate_review_dates" =>
    /\ call.msg = "none"
    /\ SevenReviewsAfter(call.args[1], call.list)

FirstCalcDate == <<"1", "0", "0", "0", "-", "0", "1", "-", "0", "1">>

LastCalcDate == <<"9", "9", "9", "9", "-", "1", "2", "-", "0", "1">>

\* C4 amended: for every valid date d from 1000-01-01 to 9999-12-01 the call
\* returns the seven records described; for a later date, whose thirtieth day
\* lies past 9999-12-31, it raises OverflowError.
C4_DatesInRange ==
  call.op = "calculate_review_dates" =>
    /\ (StrLeq(FirstCalcDate, call.args[1]) /\ StrLeq(call.args[1], LastCalcDate)) =>
         /\ call.msg = "none"
         /\ SevenReviewsAfter(call.args[1], call.list)
    /\ StrLess(LastCalcDate, call.args[1]) => call.msg = "OverflowError"

\* the schedule of 28 February of a leap year: the second review falls on 1 March
C4_Witness ==
  /\ call.op = "calculate_review_dates"
  /\ call.args[1] = D0228
  /\ call.msg = "none"
  /\ call.list[2].dueDate = Y2024 \o <<"-", "0", "3", "-", "0", "1">>

\* the (entry, review) positions of data due on the date written day and not completed
DuePairs(data, day) ==
  {p \in (1..Len(data)) \X (1..7) :
     /\ p[2] <= Len(data[p[1]].reviews)
     /\ data[p[1]].reviews[p[2]].dueDate = day
     /\ ~data[p[1]].reviews[p[2]].completed}

\* the element x of the due list shows review p of data
Shows(x, data, p) ==
  /\ x.entry_date = data[p[1]].date
  /\ x.items = data[p[1]].items
  /\ x.review_index = p[2] - 1
  /\ x.due_date = data[p[1]].reviews[p[2]].dueDate

\* C5: get_reviews_due_today returns exactly one element for every (entry,
\* review index) pair of the store that is due today and not completed, and
\* nothing else; the elements are ordered by entry date, newest first.
C5_DueToday ==
  call.op = "get_reviews_due_today" =>
    LET r == call.list
        due == DuePairs(Entries, Iso(now))
    IN /\ Len(r) = Cardinality(due)
       /\ \A p \in due : Cardinality({n \in 1..Len(r) : Shows(r[n], Entries, p)}) = 1
       /\ \A n \in 1..Len(r) : \E p \in due : Shows(r[n], Entries, p)
       /\ \A n, m \in 1..Len(r) :
            n < m => Ordinal(IsoYMD(r[n].entry_date)) >= Ordinal(IsoYMD(r[m].entry_date))

\* two entries are due today, the older one stored first and listed last,
\* while another stored review is due on another day
C5_Witness ==
  /\ call.op = "get_reviews_due_today"
  /\ Len(call.list) = 2
  /\ Len(Entries) = 3
  /\ Entries[1].date = call.list[2].entry_date
  /\ call.list[1].entry_date = D0228

\* the three date inputs are integers that form a calendar date
ValidDateInput(year, month, day) ==
  /\ ParseInt(year).exc = "none" /\ ParseInt(month).exc = "none" /\ ParseInt(day).exc = "none"
  /\ IsCalendarDate(<<ParseInt(year).val, ParseInt(month).val, ParseInt(day).val>>)

\* the non-blank texts among three inputs, in order
NonBlankInputs(item1, item2, item3) ==
  SelectSeq(<<item1, item2, item3>>, LAMBDA item : ~BlankText(item))

\* the entry a first add of the date writes: the date, the items, seven
\* reviews not completed
IsNewEntry(e, date_str, items) ==
  /\ e.date = date_str
  /\ e.items = items
  /\ Len(e.reviews) = 7
  /\ \A i \in 1..7 : ~e.reviews[i].completed

\* the date the inputs of an add_learning_entry call name, written YYYY-MM-DD
DateOfInputs(a) == Iso(<<ParseInt(a[1]).val, ParseInt(a[2]).val, ParseInt(a[3]).val>>)

ItemsOfInputs(a) == NonBlankInputs(a[4], a[5], a[6])

\* new is old after adding the items under the date: the entry of that date
\* has its items replaced, or a new entry is appended when there is none
IsAdded(new, old, date_str, items) ==
  IF date_str \in DatesOf(old)
  THEN /\ Len(new) = Len(old)
       /\ \A k \in 1..Len(old) :
            /\ new[k].date = old[k].date
            /\ new[k].reviews = old[k].reviews
            /\ new[k].items = (IF old[k].date = date_str THEN items ELSE old[k].items)
  ELSE /\ Len(new) = Len(old) + 1
       /\ SubSeq(new, 1, Len(old)) = old
       /\ IsNewEntry(new[Len(new)], date_str, items)

C6_AddStep ==
  (call'.op = "add_learning_entry"
     /\ ValidDateInput(call'.args[1], call'.args[2], call'.args[3])
     /\ ItemsOfInputs(call'.args) # <<>>)
  => IsAdded(file'.data, load_data(file).ret, DateOfInputs(call'.args), ItemsOfInputs(call'.args))

\* C6 in one state: after add_learning_entry with a valid date and at least one
\* non-blank item, the store holds an entry of that date with the non-blank
\* items and seven reviews, and the call has reported an addition or an update.
C6_AddWrites ==
  (call.op = "add_learning_entry"
     /\ ValidDateInput(call.args[1], call.args[2], call.args[3])
     /\ NonBlankInputs(call.args[4], call.args[5], call.args[6]) # <<>>)
  => /\ call.msg \in {"added", "updated"}
     /\ \E k \in 1..Len(Entries) :
          /\ Entries[k].date = Iso(<<ParseInt(call.args[1]).val, ParseInt(call.args[2]).val,
                                     ParseInt(call.args[3]).val>>)
          /\ Entries[k].items = NonBlankInputs(call.args[4], call.args[5], call.args[6])
          /\ Len(Entries[k].reviews) = 7

\* the date of an add_learning_entry step is no earlier than 1000-01-01 and no
\* later than 9999-12-01
AddDateInRange ==
  LET date == <<ParseInt(call'.args[1]).val, ParseInt(call'.args[2]).val,
                ParseInt(call'.args[3]).val>>
  IN /\ ValidDateInput(call'.args[1], call'.args[2], call'.args[3])
     /\ date[1] >= 1000
     /\ Ordinal(date) <= Ordinal(<<9999, 12, 1>>)

\* what does hold of C6: the step is as stated for every date from 1000-01-01
\* to 9999-12-01
C6_AddInRange == [][(call'.op = "add_learning_entry" /\ AddDateInRange) => C6_AddStep]_vars

\* C6: add_learning_entry with a valid date and at least one non-blank item
\* appends a new entry, its seven reviews not completed, when no entry has the
\* date, and otherwise replaces the items of the entry of that date and leaves
\* its reviews, every other entry and the number and order of entries unchanged.
C6_Add == [][C6_AddStep]_vars

\* new is old without some of its entries, the others in their order
IsSubsequence(new, old) ==
  \E f \in [1..Len(new) -> 1..Len(old)] :
    /\ \A a, b \in 1..Len(new) : a < b => f[a] < f[b]
    /\ \A a \in 1..Len(new) : new[a] = old[f[a]]

\* new is old without the entries dated d
IsDeleted(new, old, d) ==
  /\ d \notin DatesOf(new)
  /\ IsSubsequence(new, old)
  /\ Len(new) = Cardinality({k \in 1..Len(old) : old[k].date # d})
  /\ d \notin DatesOf(old) => new = old

C7_DeleteStep ==
  (call'.op = "handle_delete" /\ call'.args[1] # <<>>)
  => IsDeleted(file'.data, load_data(file).ret, call'.args[1])

\* C7: delete_entry(d) leaves exactly the entries whose date differs from d,
\* contents and relative order unchanged; when no entry has date d the
\* stored entries are the same as before, so that a second delete_entry(d)
\* changes nothing.
C7_Delete == [][C7_DeleteStep]_vars

\* the middle one of three entries has been deleted: the call found three
\* entries and two are left
C7_Witness ==
  /\ call.op = "handle_delete"
  /\ call.seen[1] = 3
  /\ Len(Entries) = 2
  /\ call.args[1] \notin DatesOf(Entries)

\* new is old with the completed flag of the review shown as x set, and
\* nothing else changed
IsMarked(new, old, x) ==
  /\ Len(new) = Len(old)
  /\ \A k \in 1..Len(old) :
       /\ new[k].date = old[k].date
       /\ new[k].items = old[k].items
       /\ Len(new[k].reviews) = Len(old[k].reviews)
       /\ \A j \in 1..Len(old[k].reviews) :
            /\ new[k].reviews[j].dueDate = old[k].reviews[j].dueDate
            /\ new[k].reviews[j].completed =
                 (IF old[k].date = x.entry_date /\ j = x.review_index + 1
                  THEN TRUE ELSE old[k].reviews[j].completed)

C8_MarkStep ==
  LET shown == get_reviews_due_today(file, today).ret
      i == call'.index
  IN (call'.op = "mark_review_completed" /\ 0 <= i /\ i < Len(shown))
     => IsMarked(file'.data, load_data(file).ret, shown[i + 1])

\* C8: mark_review_completed(i) with 0 <= i < number of reviews due today
\* sets the completed flag of exactly the review shown at position i of
\* get_reviews_due_today, and leaves every other flag, every due date, all
\* items and the set and order of entries unchanged.
C8_Mark == [][C8_MarkStep]_vars

\* the call found two reviews due, marked the second one shown, which is the
\* review of the entry stored first, and the review of the other entry that
\* was shown first is not completed
C8_Witness ==
  /\ call.op = "mark_review_completed"
  /\ call.index = 1
  /\ call.seen[2] = 2
  /\ Len(Entries) = 2
  /\ Entries[1].date = D0227
  /\ Entries[1].reviews[2].completed
  /\ Entries[2].date = D0228
  /\ \A j \in 1..7 : ~Entries[2].reviews[j].completed

C9_LoadStep ==
  call'.op = "load_data" =>
    /\ file.kind = "json" => call'.list = file.data /\ file' = file
    /\ file.kind = "missing" => call'.list = <<>> /\ file' = [kind |-> "json", data |-> <<>>]
    /\ file.kind = "invalid" => call'.list = <<>> /\ file' = file

\* C9: load_data returns the stored array when data.json holds valid JSON;
\* when data.json does not exist it creates the file holding an empty array
\* and returns an empty list; when data.json is not valid JSON it returns an
\* empty list and leaves the file as it is.
C9_Load == [][C9_LoadStep]_vars

\* load_data has returned the empty list for a file that is still not JSON
C9_Witness ==
  /\ call.op = "load_data"
  /\ call.list = <<>>
  /\ file.kind = "invalid"

\* the change c of an earlier save shows in data
ChangePresent(c, data) ==
  IF c.kind = "add"
    THEN \E k \in 1..Len(data) : data[k].date = c.date /\ data[k].items = c.items
  ELSE IF c.kind = "delete"
    THEN \A k \in 1..Len(data) : data[k].date # c.date
  ELSE \E k \in 1..Len(data) :
         data[k].date = c.date /\ data[k].reviews[c.index + 1].completed

\* data is what the operation of the save sv makes of the array sv loaded
IsRewrite(data, sv) ==
  IF sv.op = "add_learning_entry"
    THEN IsAdded(data, sv.data, DateOfInputs(sv.args), ItemsOfInputs(sv.args))
  ELSE IF sv.op = "delete_entry"
    THEN IsDeleted(data, sv.data, sv.args[1])
  ELSE IsMarked(data, sv.data, sv.reviews[sv.index + 1])

\* the operation of the save sv makes the change c itself
SameChange(c, sv) ==
  IF sv.op = "add_learning_entry"
    THEN c.kind = "add" /\ c.date = DateOfInputs(sv.args) /\ c.items = ItemsOfInputs(sv.args)
  ELSE IF sv.op = "delete_entry"
    THEN c.kind = "delete" /\ c.date = sv.args[1]
  ELSE /\ c.kind = "mark"
       /\ c.date = sv.reviews[sv.index + 1].entry_date
       /\ c.index = sv.reviews[sv.index + 1].review_index

\* C10 as stated: when two mutating operations both load the store before
\* either saves, the store after both saves is the later saver's rewrite of
\* the state it loaded, and the change made by the earlier saver is not
\* present in it.
C10_EarlierChangeAbsent ==
  last.race = "raced" =>
    /\ last.after.kind = "json"
    /\ IsRewrite(last.after.data, last)
    /\ \A c \in last.earlier : ~ChangePresent(c, last.after.data)

\* C10 amended: when the later save does not overlap the earlier one, the
\* store after both saves is the later saver's rewrite of the state it
\* loaded, and the change made by the earlier saver is present in it only if
\* the state the later saver loaded already showed it or the later saver's
\* own operation makes the same change.  When the other handler's text was
\* written between the open and the write of the later save, the store is
\* that rewrite or data.json is left not JSON.
C10_LaterRewrite ==
  last.race = "raced" =>
    /\ last.after.kind = "json" =>
         /\ IsRewrite(last.after.data, last)
         /\ \A c \in last.earlier :
              ChangePresent(c, last.after.data)
                => ChangePresent(c, last.data) \/ SameChange(c, last)
    /\ last.after.kind # "json" => last.before.kind = "json"

\* two handlers loaded the same array, one added an entry and saved, the
\* other then saved its own new entry: the first entry is gone
C10_Witness ==
  /\ last.race = "raced"
  /\ last.op = "add_learning_entry"
  /\ last.after = file
  /\ file.kind = "json"
  /\ Len(file.data) = Len(last.data) + 1
  /\ \E c \in last.earlier : c.kind = "add" /\ ~ChangePresent(c, file.data)

\* the array a load_data of the file f returns
Stored(f) == IF f.kind = "json" THEN f.data ELSE <<>>

\* one of the three date inputs is missing or empty
MissingDateInput(year, month, day) == year = <<>> \/ month = <<>> \/ day = <<>>

\* the inputs of an add_learning_entry call that it must reject
RejectedInputs(a) ==
  \/ MissingDateInput(a[1], a[2], a[3])
  \/ ~ValidDateInput(a[1], a[2], a[3])
  \/ NonBlankInputs(a[4], a[5], a[6]) = <<>>

C11_RejectStep ==
  (call'.op = "add_learning_entry" /\ RejectedInputs(call'.args))
  => /\ Stored(file') = Stored(file)
     /\ file'.kind = "invalid" <=> file.kind = "invalid"
     /\ call'.msg \in {"invalid_date", "date_format_error", "no_items", "add_error"}

\* C11: add_learning_entry leaves the store unchanged and returns an error
\* message, not one of the two success messages, whenever one of year, month,
\* day is missing or empty, the three do not form a valid calendar date, or
\* all three items are empty or whitespace-only.
C11_Reject == [][C11_RejectStep]_vars

\* a call with three blank items has been refused while the store holds entries
C11_Witness ==
  /\ call.op = "add_learning_entry"
  /\ call.msg = "no_items"
  /\ NonBlankInputs(call.args[4], call.args[5], call.args[6]) = <<>>
  /\ call.seen[1] >= 1
  /\ Len(Entries) = call.seen[1]

\* the number of reviews of the array of f due on the day of the clock and not completed
NumberDue(f) == Cardinality(DuePairs(Stored(f), Iso(now)))

\* the step has written nothing but the empty array of a missing file
NothingSaved ==
  /\ Stored(file') = Stored(file)
  /\ file'.kind = "invalid" <=> file.kind = "invalid"

C12_SkipStep ==
  /\ (call'.op = "mark_review_completed"
        /\ (call'.index < 0 \/ call'.index >= NumberDue(file)))
     => NothingSaved
  /\ (call'.op = "mark_review_completed_enhanced" /\ NumberDue(file) = 0)
     => NothingSaved /\ call'.msg = "nothing_to_review"

\* C12: mark_review_completed(i) with i < 0 or i >= the number of reviews due
\* today leaves the store unchanged, no flag set and nothing saved, and
\* mark_review_completed_enhanced called when no review is due today leaves
\* the store unchanged and reports that there is nothing to review.
C12_Skip == [][C12_SkipStep]_vars

\* mark_review_completed(-1) has run while one review was due, and no review
\* of the store is completed
C12_Witness ==
  /\ call.op = "mark_review_completed"
  /\ call.index = -1
  /\ call.seen[2] = 1
  /\ Len(Entries) >= 1
  /\ \A k \in 1..Len(Entries) : \A j \in 1..7 : ~Entries[k].reviews[j].completed

\* C13 as stated: format_date(year, month, day) returns the date in
\* YYYY-MM-DD form, four-digit year and two-digit zero-padded month and day,
\* for every year, month, day that form a valid calendar date, and raises an
\* error for every combination that is not convertible to integers or is not
\* a valid calendar date.
C13_FormatDate ==
  call.op = "format_date" =>
    IF ValidDateInput(call.args[1], call.args[2], call.args[3])
    THEN /\ call.msg = "none"
         /\ IsIsoDate(call.list)
         /\ IsoYMD(call.list) = <<ParseInt(call.args[1]).val, ParseInt(call.args[2]).val,
                                  ParseInt(call.args[3]).val>>
    ELSE call.msg # "none"

\* what does hold of C13: the call is as stated for every year from 1000 on
C13_FourDigitYears ==
  (call.op = "format_date"
     /\ (ParseInt(call.args[1]).exc = "none" => ParseInt(call.args[1]).val >= 1000))
  => C13_FormatDate

\* the number of times x occurs in the list r
Occurrences(r, x) == Cardinality({n \in 1..Len(r) : r[n] = x})

\* C14: get_existing_dates returns exactly the dates of the stored entries,
\* one per entry, newest first, and the empty list when the store is empty;
\* get_items_for_date(d) returns the items of the entry whose date is d, and
\* the empty list when no entry has date d.
C14_Lookups ==
  /\ call.op = "get_existing_dates" =>
       /\ Len(call.list) = Len(Stored(file))
       /\ \A k \in 1..Len(Stored(file)) :
            Occurrences(call.list, Stored(file)[k].date)
              = Cardinality({j \in 1..Len(Stored(file)) : Stored(file)[j].date = Stored(file)[k].date})
       /\ \A n, m \in 1..Len(call.list) :
            n < m => Ordinal(IsoYMD(call.list[n])) >= Ordinal(IsoYMD(call.list[m]))
       /\ Stored(file) = <<>> => call.list = <<>>
  /\ call.op = "get_items_for_date" =>
       /\ call.args[1] \in DatesOf(Stored(file)) => ItemsOf(Stored(file), call.args[1]) = {call.list}
       /\ call.args[1] \notin DatesOf(Stored(file)) => call.list = <<>>

\* the dates of three entries stored oldest, newest, middle have been listed
\* newest first
C14_Witness ==
  /\ call.op = "get_existing_dates"
  /\ Len(call.list) = 3
  /\ Entries[1].date = call.list[3]
  /\ Entries[2].date = call.list[1]
  /\ Entries[3].date = call.list[2]

\* the calendar date three date inputs name
DateOfYMD(year, month, day) == <<ParseInt(year).val, ParseInt(month).val, ParseInt(day).val>>

\* both dates of a send_to_ai call are calendar dates and the first is not
\* after the second
OrderedRange(a) ==
  /\ ValidDateInput(a[1], a[2], a[3])
  /\ ValidDateInput(a[4], a[5], a[6])
  /\ Ordinal(DateOfYMD(a[1], a[2], a[3])) <= Ordinal(DateOfYMD(a[4], a[5], a[6]))

\* the date written d lies from the first to the second date of the call, both included
WithinRange(a, d) ==
  /\ Ordinal(DateOfYMD(a[1], a[2], a[3])) <= Ordinal(IsoYMD(d))
  /\ Ordinal(IsoYMD(d)) <= Ordinal(DateOfYMD(a[4], a[5], a[6]))

\* the step is send_to_ai from its first line to its return without a post,
\* or to its post
SendBegins == call'.op = "send_to_ai" /\ hs[1].pc = "idle"

\* what C15 says of that step: file is data.json as line 921 loads it
SendClaim ==
  LET args == call'.args
      sendable ==
        /\ OrderedRange(args)
        /\ \E k \in 1..Len(Stored(file)) : WithinRange(args, Stored(file)[k].date)
  IN /\ call'.index = 1 =>
          /\ sendable
          /\ call'.list = SelectSeq(Stored(file), LAMBDA e : WithinRange(args, e.date))
     /\ ~sendable =>
          /\ call'.index = 0
          /\ call'.list = <<>>
          /\ call'.msg \in {"error", "start_after_end", "no_data"}

C15_SendStep == SendBegins => SendClaim

\* C15 as stated: send_to_ai posts to the external endpoint only when the
\* start date is not after the end date and at least one stored entry has a
\* date in the inclusive range from start to end; the posted data is then
\* exactly the stored entries whose date lies in the range, with their date,
\* items and reviews, in store order; in every other case a message is
\* returned and nothing is sent.  The stored entries are those of the file
\* send_to_ai loads; the file may change while it waits for the reply.
C15_SendToAi == [][C15_SendStep]_vars

\* the year input is the text of a number below 1000
YearBelow1000(year) == ParseInt(year).exc = "none" /\ ParseInt(year).val < 1000

C15_FourDigitStep ==
  (/\ SendBegins
   /\ ~YearBelow1000(call'.args[1])
   /\ ~YearBelow1000(call'.args[4])) => SendClaim

\* the same of the calls whose years have four digits, for which the order of
\* the texts format_date returns is the order of the dates
C15_FourDigitYears == [][C15_FourDigitStep]_vars

\* two of three stored entries, the first and the last, were posted in that
\* order: the entry between them lies outside the range
C15_SentInOrder ==
  /\ call.op = "send_to_ai"
  /\ call.index = 1
  /\ Len(Entries) = 3
  /\ call.list = <<Entries[1], Entries[3]>>

\* send_to_ai has returned its message after a post, and by then the store
\* holds an entry in the range that was not posted
C15_StoreChangedSince ==
  /\ call.op = "send_to_ai"
  /\ call.index = 1
  /\ call.msg = "analysis"
  /\ OrderedRange(call.args)
  /\ Len(call.list) = 1
  /\ Len(SelectSeq(Stored(file), LAMBDA e : WithinRange(call.args, e.date))) = 2

\* the operations that only read
ReadOnlyOps ==
  {"get_existing_dates", "get_items_for_date", "get_reviews_due_today",
   "render_today_reviews", "render_progress", "send_to_ai"}

C16_ReadStep ==
  (call'.op \in ReadOnlyOps /\ file.kind # "missing") => file' = file

\* C16: when data.json exists, get_existing_dates, get_items_for_date,
\* get_reviews_due_today, render_today_reviews, render_progress and send_to_ai
\* leave the stored array unchanged, the order of its entries included: the
\* newest-first sorting of render_progress and get_existing_dates is done on
\* a loaded copy and never written back.
C16_ReadOnly == [][C16_ReadStep]_vars

\* render_progress has shown three entries newest first while data.json still
\* holds them in another order
C16_Witness ==
  /\ call.op = "render_progress"
  /\ Len(Entries) = 3
  /\ Len(call.list) = 3
  /\ call.list[1] = Entries[2]
  /\ call.list[2] = Entries[3]
  /\ call.list[3] = Entries[1]

\* C17: date uniqueness and seven reviews per entry survive concurrency:
\* starting from an empty store, under every interleaving of
\* add_learning_entry, delete_entry and mark_review_completed calls of
\* several handlers, each load and each save being one step, every state of
\* the stored array has pairwise distinct entry dates and seven reviews in
\* every entry, also when two handlers add the same new date at the same time.
\* The steps of SpecConc are finer than whole loads and saves; a file that is
\* not JSON is the empty array to every load.  SpecConc starts from the empty
\* stores and from a store of one entry that one add made of the empty store.
C17_ConcurrentInvariant ==
  /\ Cardinality(DatesOf(Stored(file))) = Len(Stored(file))
  /\ \A k \in 1..Len(Stored(file)) : Len(Stored(file)[k].reviews) = 7

\* two handlers loaded an array without the date and both added it, with
\* different items: the second save is in place and the array holds the date once
C17_Witness ==
  /\ last.op = "add_learning_entry"
  /\ last.race = "raced"
  /\ DateOfInputs(last.args) \notin DatesOf(last.data)
  /\ \E c \in last.earlier :
       c.kind = "add" /\ c.date = DateOfInputs(last.args) /\ c.items # ItemsOfInputs(last.args)
  /\ file = last.after
  /\ Len(Stored(file)) = 1
  /\ Stored(file)[1].date = DateOfInputs(last.args)

====
